---- MODULE Spec2Model ----
(***************************************************************************)
(* Model of the PickPerfect backend: the upload API (presigned-URL issue   *)
(* and upload webhook), the task queue, and the Celery workers that run    *)
(* the analysis pipeline process_music_video against the "videos"          *)
(* collection.                                                             *)
(*                                                                         *)
(* Fixed-point conventions for the numeric results:                        *)
(*   chord confidence      : units of 1/10000 (round(x, 4))                *)
(*   rhythm_score, energy  : units of 1/1000  (round(x, 3))                *)
(*   strums_per_second     : units of 1/100   (round(x, 2))                *)
(*   performance score     : units of 1/10    (round(x, 1))                *)
(*   rms_energy_mean / std : units of 1/1000                               *)
(***************************************************************************)
EXTENDS Integers, Sequences, FiniteSets, TLC

\* ------------------------------------------------------------------ bounds
\* number of webhook deliveries (each enqueues one job)
MaxJobs == 2
\* largest value of the wall clock read by datetime.utcnow()
MaxTime == 1

\* the worker processes of the pool
Workers == {"w1", "w2"}
\* the uuid4 values get_presigned_url can draw: one job record, against
\* which every run of the model works
VideoIds == {1}

\* ------------------------------------------------------------- storage keys
\* "videos/{video_id}.mp4": directory part, base name, extension
S3KeyOf(video_id) == <<"videos", video_id, "mp4">>
EmptyKey == <<>>
\* keys a webhook event can carry: any string, among them the issued keys
\* and the empty string
EventKeys == {S3KeyOf(i) : i \in VideoIds} \cup {EmptyKey}
\* event.status is an unconstrained string of the request body
EventStatuses == {"UPLOADED"}
Filenames == {"take1.mp4"}

\* ------------------------------------------------------- document store
\* a $set that only fills in the fields the document does not have yet
SetFieldsKeepExisting(doc, payload) ==
  [f \in (DOMAIN doc) \cup (DOMAIN payload) |->
      IF f \in DOMAIN doc THEN doc[f] ELSE payload[f]]

\* {"$set": payload} applied to one document
SetFields(doc, payload) ==
  [f \in (DOMAIN doc) \cup (DOMAIN payload) |->
      IF f \in DOMAIN payload THEN payload[f] ELSE doc[f]]

Matching(coll, key) == {d \in coll : d.s3_key = key}

\* matched_count of update_one({"s3_key": key}, ...)
MatchedCount(coll, key) == IF Matching(coll, key) = {} THEN 0 ELSE 1

\* an update that stores the changed document next to the old one
UpdateOneKeepOld(coll, key, payload) ==
  IF Matching(coll, key) = {}
    THEN coll
    ELSE LET d == CHOOSE x \in Matching(coll, key) : TRUE
         IN  coll \cup {SetFields(d, payload)}

\* collection.update_one({"s3_key": key}, {"$set": payload}): the first
\* matching document gets the fields, nothing is inserted
UpdateOne(coll, key, payload) ==
  IF Matching(coll, key) = {}
    THEN coll
    ELSE LET d == CHOOSE x \in Matching(coll, key) : TRUE
         IN  (coll \ {d}) \cup {SetFields(d, payload)}

\* ------------------------------------------------------- numeric helpers
Min(a, b) == IF a <= b THEN a ELSE b
Max(a, b) == IF a >= b THEN a ELSE b

\* dict.get(key, default)
Get(d, k, default) == IF k \in DOMAIN d THEN d[k] ELSE default

\* round(num / den) to the nearest integer, ties to even (Python's round)
RoundDiv(num, den) ==
  LET q == num \div den
      r == num % den
  IN  IF 2 * r < den THEN q
      ELSE IF 2 * r > den THEN q + 1
      ELSE IF q % 2 = 0 THEN q ELSE q + 1

\* floor(a * 10^k / b), one decimal digit at a time
RECURSIVE LongDiv(_, _, _, _)
LongDiv(q, r, b, k) ==
  IF k = 0 THEN q
  ELSE LongDiv(10 * q + ((10 * r) \div b), (10 * r) % b, b, k - 1)

\* np.linalg.norm(chroma) in millionths for the sum of squares sq: the
\* integer root, exact when sq is a perfect square (every bag below)
NormMicro(sq) ==
  1000000 * (CHOOSE x \in 0..sq : x * x <= sq /\ (x + 1) * (x + 1) > sq)

RECURSIVE SumSeq(_)
SumSeq(s) == IF s = <<>> THEN 0 ELSE Head(s) + SumSeq(Tail(s))

\* ------------------------------------------------------- Chord Detector
pitch_classes == <<"C", "C#", "D", "D#", "E", "F",
                   "F#", "G", "G#", "A", "A#", "B">>

chord_types == <<"major", "minor">>

chord_templates ==
  [major |-> <<1, 0, 0, 0, 1, 0, 0, 1, 0, 0, 0, 0>>,
   minor |-> <<1, 0, 0, 1, 0, 0, 0, 1, 0, 0, 0, 0>>]

\* np.roll(template, i): element j moves to position j + i (mod 12)
Roll(template, i) ==
  [j \in 1..12 |-> template[((j - 1 - i + 12) % 12) + 1]]

Dot(a, b) == SumSeq([j \in 1..12 |-> a[j] * b[j]])

\* round(dot(chroma / (norm + 1e-6), template), 4) in ten-thousandths
Confidence(chroma, template) ==
  LET d == Dot(chroma, template)
      b == NormMicro(Dot(chroma, chroma)) + 1
      twice == LongDiv((2 * d) \div b, (2 * d) % b, b, 10)
  IN  (twice + 1) \div 2

\* the candidates 1..n in enumeration order: root ascending, major then
\* minor (detected_chords.append in the double loop)
RECURSIVE Candidates(_, _)
Candidates(chroma, n) ==
  IF n = 0 THEN <<>>
  ELSE LET i == (n - 1) \div 2
           chord_type == chord_types[((n - 1) % 2) + 1]
       IN  Append(Candidates(chroma, n - 1),
                  [chord |-> pitch_classes[i + 1] \o " " \o chord_type,
                   confidence |->
                     Confidence(chroma, Roll(chord_templates[chord_type], i))])

\* a sort without reverse=True: lowest first
InsertAsc(sorted, c) ==
  LET k == Cardinality({m \in DOMAIN sorted : sorted[m].confidence <= c.confidence})
  IN  SubSeq(sorted, 1, k) \o <<c>> \o SubSeq(sorted, k + 1, Len(sorted))

\* c placed after every element of the sorted list that is not smaller
InsertDesc(sorted, c) ==
  LET k == Cardinality({m \in DOMAIN sorted : sorted[m].confidence >= c.confidence})
  IN  SubSeq(sorted, 1, k) \o <<c>> \o SubSeq(sorted, k + 1, Len(sorted))

\* list.sort(key=confidence, reverse=True): stable, highest first
RECURSIVE SortByConfidence(_)
SortByConfidence(cands) ==
  IF cands = <<>> THEN <<>>
  ELSE InsertDesc(SortByConfidence(SubSeq(cands, 1, Len(cands) - 1)),
                  cands[Len(cands)])

detect_chords(feats) ==
  LET chroma == Get(feats, "chroma_mean", <<>>)
  IN  IF Len(chroma) # 12
        THEN [error |-> "Invalid chroma_mean; expected 12 pitch classes"]
        ELSE LET detected_chords == SortByConfidence(Candidates(chroma, 24))
             IN  [top_chord |-> detected_chords[1],
                  alternatives |-> SubSeq(detected_chords, 1, 5)]

\* ------------------------------------------------------ Rhythm Evaluator
detect_rhythm(feats) ==
  LET tempo == Get(feats, "tempo_bpm", 0)
      onset_count == Get(feats, "onset_count", 0)
      duration == Get(feats, "duration_sec", 1)
      rms_mean == Get(feats, "rms_energy_mean", 0)
      rms_std == Get(feats, "rms_energy_std", 0)
  IN  IF duration <= 0
        THEN [error |-> "Invalid audio duration"]
        ELSE
          LET \* energy_consistency = ecNum / ecDen
              ecNum == IF rms_mean > 0 THEN rms_mean - Min(rms_std, rms_mean) ELSE 0
              ecDen == IF rms_mean > 0 THEN rms_mean ELSE 1
              tempo_milli == IF 60 <= tempo /\ tempo <= 180 THEN 1000 ELSE 500
              \* min(strums_per_second / 4, 1) = strumNum / (4 * duration)
              strumNum == Min(onset_count, 4 * duration)
              den == ecDen * 4 * duration
              rhythm_score ==
                RoundDiv(400 * ecNum * 4 * duration
                           + ((3 * tempo_milli) \div 10) * den
                           + 300 * strumNum * ecDen, den)
              rhythm_quality == IF rhythm_score >= 800 THEN "steady"
                                ELSE IF rhythm_score >= 500 THEN "moderate"
                                ELSE "unstable"
          IN  [tempo_bpm |-> tempo,
               strums_per_second |-> RoundDiv(100 * onset_count, duration),
               energy_consistency |-> RoundDiv(1000 * ecNum, ecDen),
               rhythm_score |-> rhythm_score,
               rhythm_quality |-> rhythm_quality]

\* ----------------------------------------------------- Performance Scorer
\* a scorer that uses the two inputs as they come, without clamping
evaluate_performance_unclamped(chord, rhythm) ==
  LET chord_confidence == Get(Get(chord, "top_chord", <<>>), "confidence", 0)
      rhythm_score == Get(rhythm, "rhythm_score", 0)
      final_score_percent == RoundDiv(6 * chord_confidence + 40 * rhythm_score, 100)
      grade == IF final_score_percent >= 850 THEN "Excellent"
               ELSE IF final_score_percent >= 700 THEN "Good"
               ELSE IF final_score_percent >= 500 THEN "Fair"
               ELSE "Needs Practice"
  IN  [score |-> final_score_percent,
       grade |-> grade,
       feedback |-> "",
       details |-> [chord_confidence |-> RoundDiv(chord_confidence, 10),
                    rhythm_score |-> rhythm_score]]

evaluate_performance(chord, rhythm) ==
  LET raw_confidence == Get(Get(chord, "top_chord", <<>>), "confidence", 0)
      raw_rhythm == Get(rhythm, "rhythm_score", 0)
      chord_confidence == Min(Max(raw_confidence, 0), 10000)
      rhythm_score == Min(Max(raw_rhythm, 0), 1000)
      \* 100 * (0.6 * c + 0.4 * r) in tenths of a percent
      final_score_percent == RoundDiv(6 * chord_confidence + 40 * rhythm_score, 100)
      grade == IF final_score_percent >= 850 THEN "Excellent"
               ELSE IF final_score_percent >= 700 THEN "Good"
               ELSE IF final_score_percent >= 500 THEN "Fair"
               ELSE "Needs Practice"
      feedback ==
        IF final_score_percent >= 850
          THEN "Strong chord accuracy with very steady rhythm."
        ELSE IF final_score_percent >= 700
          THEN "Mostly correct chords with decent rhythm stability."
        ELSE IF final_score_percent >= 500
          THEN "Chords are recognizable but rhythm needs improvement."
        ELSE "Work on both chord accuracy and rhythmic consistency."
  IN  [score |-> final_score_percent,
       grade |-> grade,
       feedback |-> feedback,
       details |-> [chord_confidence |-> RoundDiv(chord_confidence, 10),
                    rhythm_score |-> rhythm_score]]

\* ------------------------------------------------------ descriptor bags
\* The media objects a client can upload, each identified with the
\* descriptor bag analyze_audio_features computes from it.
FeatureBags ==
  { \* C major triad plus B, 120 BPM, 8 onsets over 4 seconds
    [duration_sec |-> 4, tempo_bpm |-> 120, onset_count |-> 8,
     rms_energy_mean |-> 100, rms_energy_std |-> 20,
     chroma_mean |-> <<1, 0, 0, 0, 1, 0, 0, 1, 0, 0, 0, 1>>],
    \* D major triad plus C#, slow and uneven
    [duration_sec |-> 5, tempo_bpm |-> 50, onset_count |-> 3,
     rms_energy_mean |-> 50, rms_energy_std |-> 40,
     chroma_mean |-> <<0, 1, 1, 0, 0, 0, 1, 0, 0, 1, 0, 0>>] }

\* Descriptor bags whose chroma_mean is not a 12-vector: the key missing,
\* and a vector one entry short.
DegradedBags ==
  { [duration_sec |-> 4, tempo_bpm |-> 120, onset_count |-> 8,
     rms_energy_mean |-> 100, rms_energy_std |-> 20],
    [duration_sec |-> 5, tempo_bpm |-> 50, onset_count |-> 3,
     rms_energy_mean |-> 50, rms_energy_std |-> 40,
     chroma_mean |-> <<0, 1, 1, 0, 0, 0, 1, 0, 0, 1, 0>>] }

\* ------------------------------------------------------------------ state
VARIABLES
  videos,        \* the "videos" collection: a set of job documents
  bucket,        \* object storage: storage key -> uploaded media
  queue,         \* broker queue of process_music_video messages
  enqueued,      \* number of messages sent so far (task ids)
  task_results,  \* result backend: task id -> outcome of the run
  tmp_dirs,      \* scratch directories made by tempfile.mkdtemp()
  files,         \* files inside the scratch directories
  now,           \* wall clock read by datetime.utcnow()
  mongodb_sync,  \* per worker process: the MongoDBSync singleton
  pc,            \* per worker process: position in init / the pipeline
  locals,        \* per worker process: local variables of the running task
  env,           \* os.environ after load_dotenv: the names that have a value
  args,          \* arguments of a direct call of one analysis function
  result         \* value that call returned, NoResult before it

\* the state of the service: stores, broker and worker processes
service_vars == <<videos, bucket, queue, enqueued, task_results, tmp_dirs,
                  files, now, mongodb_sync, pc, locals>>

vars == <<videos, bucket, queue, enqueued, task_results, tmp_dirs, files,
          now, mongodb_sync, pc, locals, env, args, result>>

\* the environment variables the code reads (task_helpers.py lines 24-33,
\* config.py lines 12-13)
ConfigVars == {"AWS_S3_BUCKET", "AWS_ACCESS_KEY_ID", "AWS_SECRET_ACCESS_KEY",
               "AWS_REGION", "MONGO_URI", "MONGO_DB"}

NoResult == [x \in {} |-> 0]

NoClient == 0
NoLocals == [x \in {} |-> 0]

\* MongoDBSync.__init__
MongoDBSyncInit == [client |-> NoClient, db |-> NoClient]

\* the service before any process has started
Constructed ==
  /\ videos = {}
  /\ bucket = [k \in {} |-> 0]
  /\ queue = <<>>
  /\ enqueued = 0
  /\ task_results = [t \in {} |-> 0]
  /\ tmp_dirs = {}
  /\ files = {}
  /\ now = 0
  /\ mongodb_sync = [w \in Workers |-> MongoDBSyncInit]
  /\ pc = [w \in Workers |-> "boot"]
  /\ locals = [w \in Workers |-> NoLocals]

\* a deployment with every environment variable set
Init ==
  /\ Constructed
  /\ env = ConfigVars
  /\ args = <<>>
  /\ result = NoResult

\* ------------------------------------------------------------ environment
\* the values a call of datetime.utcnow() can return: the clock never runs
\* backwards and is only observed when it is read
UtcNow == {t \in now..(now + 1) : t <= MaxTime}

\* a client PUTs a media object under a storage key
Upload(key, media) ==
  /\ bucket' = [k \in (DOMAIN bucket) \cup {key} |->
                  IF k = key THEN media ELSE bucket[k]]
  /\ UNCHANGED <<videos, queue, enqueued, task_results, tmp_dirs, files,
                 now, mongodb_sync, pc, locals>>

\* -------------------------------------------------------------------- API
\* GET /generate-presigned-url: insert_one of the metadata document under a
\* fresh uuid4
get_presigned_url(filename) ==
  /\ \E video_id \in VideoIds \ {d._id : d \in videos}, t \in UtcNow :
       /\ now' = t
       /\ videos' = videos \cup
            {[_id |-> video_id,
              original_filename |-> filename,
              s3_key |-> S3KeyOf(video_id),
              status |-> "PENDING_UPLOAD",
              created_at |-> t,
              updated_at |-> t]}
  /\ UNCHANGED <<bucket, queue, enqueued, task_results, tmp_dirs, files,
                 mongodb_sync, pc, locals>>

\* POST /webhook: set the status by key, then process_music_video.delay(key)
video_upload_webhook(event) ==
  /\ enqueued < MaxJobs
  /\ videos' = UpdateOne(videos, event.key, [status |-> event.status])
  /\ enqueued' = enqueued + 1
  /\ queue' = Append(queue, [id |-> enqueued + 1, s3_key |-> event.key])
  /\ UNCHANGED <<bucket, task_results, tmp_dirs, files, now, mongodb_sync,
                 pc, locals>>

\* ----------------------------------------------------------------- worker
\* a connect() without the "already connected" early return
connect_unguarded(m) ==
  [client |-> m.client + 1, db |-> m.client + 1]

\* MongoDBSync.connect applied to the singleton m: a MongoClient is made
\* (clients are numbered in the order the process makes them) unless the
\* database handle is already set
connect(m) ==
  IF m.db # NoClient
    THEN m
    ELSE [client |-> m.client + 1, db |-> m.client + 1]

\* a raised exception (error names it): the task ends and the result backend
\* records the failure
Raise(w, error) ==
  /\ task_results' = [t \in (DOMAIN task_results) \cup {locals[w].task_id} |->
                        IF t = locals[w].task_id
                          THEN [status |-> "FAILURE", s3_key |-> locals[w].s3_key,
                                error |-> error]
                          ELSE task_results[t]]
  /\ pc' = [pc EXCEPT ![w] = "idle"]
  /\ locals' = [locals EXCEPT ![w] = NoLocals]

\* the task goes on to its next statement with more local variables bound
Goto(w, label, newLocals) ==
  /\ pc' = [pc EXCEPT ![w] = label]
  /\ locals' = [locals EXCEPT ![w] = SetFields(locals[w], newLocals)]
  /\ UNCHANGED task_results

\* return {"s3_key": s3_key, "status": "completed"}
Return(w) ==
  /\ task_results' = [t \in (DOMAIN task_results) \cup {locals[w].task_id} |->
                        IF t = locals[w].task_id
                          THEN [status |-> "SUCCESS", s3_key |-> locals[w].s3_key,
                                result |-> "completed"]
                          ELSE task_results[t]]
  /\ pc' = [pc EXCEPT ![w] = "idle"]
  /\ locals' = [locals EXCEPT ![w] = NoLocals]

\* a no-match branch that raises instead of logging
warning_raises(w, continue) == Raise(w, "No video found")

\* logger.warning(...) when matched_count == 0: the caller carries on
warning(w, continue) == continue

\* the variables the import-time safety check insists on
required_vars == {"AWS_S3_BUCKET", "AWS_ACCESS_KEY_ID", "AWS_SECRET_ACCESS_KEY"}

\* the worker imports its task module, which imports task_helpers: the
\* module-level check raises RuntimeError("Missing env vars: ...") and the
\* process exits, or the import completes.  Settings reads MONGO_URI and
\* MONGO_DB with os.getenv and checks neither.
load_task_helpers(w) ==
  /\ pc[w] = "boot"
  /\ LET missing == {v \in required_vars : v \notin env}
     IN  pc' = [pc EXCEPT ![w] = IF missing # {} THEN "exited" ELSE "init"]
  /\ UNCHANGED <<videos, bucket, queue, enqueued, task_results, tmp_dirs,
                 files, now, mongodb_sync, locals>>

\* worker_process_init signal; MongoClient(settings.MONGO_URI) connects
\* lazily, so connect() succeeds whatever MONGO_URI is
init_worker(w) ==
  /\ pc[w] = "init"
  /\ mongodb_sync' = [mongodb_sync EXCEPT ![w] = connect(mongodb_sync[w])]
  /\ pc' = [pc EXCEPT ![w] = "idle"]
  /\ UNCHANGED <<videos, bucket, queue, enqueued, task_results, tmp_dirs,
                 files, now, locals>>

\* the worker takes the next message and enters process_music_video(s3_key),
\* whose first statement is mongodb_sync.connect() (tasks.py lines 20-22)
StartTask(w) ==
  /\ pc[w] = "idle"
  /\ queue # <<>>
  /\ queue' = Tail(queue)
  /\ mongodb_sync' = [mongodb_sync EXCEPT ![w] = connect(mongodb_sync[w])]
  /\ pc' = [pc EXCEPT ![w] = "download"]
  /\ locals' = [locals EXCEPT ![w] =
                  [task_id |-> Head(queue).id, s3_key |-> Head(queue).s3_key]]
  /\ UNCHANGED <<videos, bucket, enqueued, task_results, tmp_dirs, files, now>>

\* ----------------------------------------------------------- the pipeline
\* os.path.join(tmp_dir, os.path.basename(s3_key))
LocalPath(tmp_dir, key) == [dir |-> tmp_dir, base |-> key[2], ext |-> key[3]]

\* f"{base}.wav" for base, _ = os.path.splitext(video_path)
AudioPath(video_path) == [video_path EXCEPT !.ext = "wav"]

\* os.path.exists(path)
Exists(path) == \E f \in files : f.path = path

Content(path) == (CHOOSE f \in files : f.path = path).media

\* Media Retriever, tasks.py line 23
download_video_from_s3(w) ==
  /\ pc[w] = "download"
  /\ LET key == locals[w].s3_key
         tmp_dir == Cardinality(tmp_dirs) + 1
         local_path == LocalPath(tmp_dir, key)
     IN  IF "AWS_S3_BUCKET" \notin env
           THEN /\ Raise(w, "AWS_S3_BUCKET is not set")
                /\ UNCHANGED <<tmp_dirs, files>>
         ELSE IF key = EmptyKey
           THEN /\ Raise(w, "s3_key is missing")
                /\ UNCHANGED <<tmp_dirs, files>>
           ELSE /\ tmp_dirs' = tmp_dirs \cup {tmp_dir}
                /\ IF key \in DOMAIN bucket
                     THEN /\ files' = files \cup
                               {[path |-> local_path, media |-> bucket[key]]}
                          /\ Goto(w, "extract", [video_path |-> local_path])
                     ELSE /\ Raise(w, "ClientError 404")
                          /\ UNCHANGED files
  /\ UNCHANGED <<videos, bucket, queue, enqueued, now, mongodb_sync>>

\* Audio Extractor, tasks.py line 26; ffmpeg_ok: ffmpeg exits with status 0
extract_audio_from_video(w, ffmpeg_ok) ==
  /\ pc[w] = "extract"
  /\ LET video_path == locals[w].video_path
         audio_path == AudioPath(video_path)
     IN  IF ~Exists(video_path)
           THEN /\ Raise(w, "Video file does not exist")
                /\ UNCHANGED files
           ELSE IF ffmpeg_ok
             THEN /\ files' = files \cup
                       {[path |-> audio_path, media |-> Content(video_path)]}
                  /\ Goto(w, "analyze", [audio_path |-> audio_path])
             ELSE /\ Raise(w, "FFmpeg failed to extract audio")
                  /\ UNCHANGED files
  /\ UNCHANGED <<videos, bucket, queue, enqueued, tmp_dirs, now, mongodb_sync>>

\* Feature Extractor, tasks.py line 29; load_ok: librosa reads the waveform
analyze_audio_features(w, load_ok) ==
  /\ pc[w] = "analyze"
  /\ LET audio_path == locals[w].audio_path
     IN  IF ~Exists(audio_path)
           THEN Raise(w, "Audio file not found")
           ELSE IF load_ok
             THEN Goto(w, "score", [features |-> Content(audio_path)])
             ELSE Raise(w, "librosa.load failed")
  /\ UNCHANGED <<videos, bucket, queue, enqueued, tmp_dirs, files, now,
                 mongodb_sync>>

\* the three results of tasks.py lines 34-44 for every descriptor bag,
\* tabulated once
Scores ==
  [feats \in FeatureBags \cup DegradedBags |->
     LET chord_result == detect_chords(feats)
         rhythm_result == detect_rhythm(feats)
     IN  [chord_result |-> chord_result,
          rhythm_result |-> rhythm_result,
          performance_score |-> evaluate_performance(chord_result, rhythm_result)]]

\* a task that treats the Chord Detector's error value as a failure
Score_error_raises(w) ==
  /\ pc[w] = "score"
  /\ IF "error" \in DOMAIN Scores[locals[w].features].chord_result
       THEN Raise(w, Scores[locals[w].features].chord_result.error)
       ELSE Goto(w, "save", Scores[locals[w].features])
  /\ UNCHANGED <<videos, bucket, queue, enqueued, tmp_dirs, files, now,
                 mongodb_sync>>

\* Chord Detector, Rhythm Evaluator and Performance Scorer, tasks.py lines
\* 34-44: three pure calls on the task's own locals
Score(w) ==
  /\ pc[w] = "score"
  /\ Goto(w, "save", Scores[locals[w].features])
  /\ UNCHANGED <<videos, bucket, queue, enqueued, tmp_dirs, files, now,
                 mongodb_sync>>

\* the embedded analysis document
Analysis(chord_result, rhythm_result, performance_score) ==
  [chords |-> chord_result,
   rhythm |-> rhythm_result,
   performance_score |-> performance_score]

\* an update_payload that leaves the status to a later update
update_payload_no_status(chord_result, rhythm_result, performance_score, t) ==
  [analysis |-> Analysis(chord_result, rhythm_result, performance_score),
   analyzed_at |-> t]

update_payload(chord_result, rhythm_result, performance_score, t) ==
  [analysis |-> Analysis(chord_result, rhythm_result, performance_score),
   status |-> "analyzed",
   analyzed_at |-> t]

\* Result Persister, tasks.py lines 46-51; db_ok: the database write is
\* applied, otherwise it raises without having been applied
save_analysis_result(w, db_ok) ==
  /\ pc[w] = "save"
  /\ IF mongodb_sync[w].db = NoClient
       THEN /\ Raise(w, "MongoDB (sync) not initialized")
            /\ UNCHANGED <<videos, now>>
       ELSE \E t \in UtcNow :
            /\ now' = t
            /\ IF db_ok
                 THEN /\ videos' = UpdateOne(videos, locals[w].s3_key,
                                     update_payload(locals[w].chord_result,
                                                    locals[w].rhythm_result,
                                                    locals[w].performance_score, t))
                      /\ IF MatchedCount(videos, locals[w].s3_key) = 0
                           THEN warning(w, Goto(w, "status", NoLocals))
                           ELSE Goto(w, "status", NoLocals)
                 ELSE /\ Raise(w, "PyMongoError")
                      /\ UNCHANGED videos
  /\ UNCHANGED <<bucket, queue, enqueued, tmp_dirs, files, mongodb_sync>>

\* the status process_music_video passes to update_video_status
FinalStatus == "processed"

\* Status Tracker and return, tasks.py lines 53-56; db_ok: the database
\* write is applied, otherwise the error is logged and re-raised
update_video_status(w, db_ok) ==
  /\ pc[w] = "status"
  /\ \E t \in UtcNow :
       /\ now' = t
       /\ IF db_ok
            THEN /\ videos' = UpdateOne(videos, locals[w].s3_key,
                                        [status |-> FinalStatus, updated_at |-> t])
                 /\ IF MatchedCount(videos, locals[w].s3_key) = 0
                      THEN warning(w, Return(w))
                      ELSE Return(w)
            ELSE /\ Raise(w, "PyMongoError")
                 /\ UNCHANGED videos
  /\ UNCHANGED <<bucket, queue, enqueued, tmp_dirs, files, mongodb_sync>>

\* ---------------------------------------------------------- specification
\* one step of the service with the worker processes ws running, the
\* external calls (ffmpeg, librosa, the database) ending as outcomes allows
\* and clients uploading media whose descriptor bags are bags
Step(ws, outcomes, bags) ==
  /\ \/ \E key \in EventKeys \ {EmptyKey}, media \in bags : Upload(key, media)
     \/ \E filename \in Filenames : get_presigned_url(filename)
     \/ \E key \in EventKeys, status \in EventStatuses :
          video_upload_webhook([status |-> status, bucket |-> "bucket", key |-> key])
     \/ \E w \in ws : load_task_helpers(w)
     \/ \E w \in ws : init_worker(w)
     \/ \E w \in ws : StartTask(w)
     \/ \E w \in ws : download_video_from_s3(w)
     \/ \E w \in ws, ffmpeg_ok \in outcomes : extract_audio_from_video(w, ffmpeg_ok)
     \/ \E w \in ws, load_ok \in outcomes : analyze_audio_features(w, load_ok)
     \/ \E w \in ws : Score(w)
     \/ \E w \in ws, db_ok \in outcomes : save_analysis_result(w, db_ok)
     \/ \E w \in ws, db_ok \in outcomes : update_video_status(w, db_ok)
  /\ UNCHANGED <<env, args, result>>

\* a pool of one worker process; every external call can fail
Next == Step({"w1"}, BOOLEAN, FeatureBags)

Spec == Init /\ [][Next]_vars

\* a pool of two worker processes whose external calls succeed, so that
\* runs delivered together both complete
NextConc == Step(Workers, {TRUE}, FeatureBags)

SpecConc == Init /\ [][NextConc]_vars

\* a deployment with any subset of the environment variables set
InitEnv ==
  /\ Constructed
  /\ env \in SUBSET ConfigVars
  /\ args = <<>>
  /\ result = NoResult

SpecEnv == InitEnv /\ [][Next]_vars

\* one worker process whose external calls succeed, fed media whose
\* descriptor bags have no usable chroma_mean
NextDegraded == Step({"w1"}, {TRUE}, DegradedBags)

SpecDegraded == Init /\ [][NextDegraded]_vars

\* ------------------------------------------------- the analysis functions
\* chroma vectors handed to the Chord Detector directly: silence, and every
\* vector with four pitch classes sounding equally (Euclidean norm 2)
ChromaInputs ==
  {v \in [1..12 -> {0, 1}] : SumSeq(v) \in {0, 4}}

\* detect_chords(features) called on its own
call_detect_chords ==
  /\ result = NoResult
  /\ result' = detect_chords(args[1])
  /\ UNCHANGED <<service_vars, env, args>>

InitChords ==
  /\ Constructed
  /\ env = ConfigVars
  /\ args \in {<<[chroma_mean |-> v]>> : v \in ChromaInputs}
  /\ result = NoResult

NextChords == call_detect_chords

SpecChords == InitChords /\ [][NextChords]_vars

\* chord results handed to the Performance Scorer directly: a top chord
\* whose confidence runs from below 0 to above 1 (ten-thousandths), the
\* Chord Detector's error value, and a top chord without a confidence
ChordResults ==
  {[top_chord |-> [chord |-> "C major", confidence |-> c]] :
      c \in {416 * k - 832 : k \in 0..28} \cup {5000, 9000, 10000}}
    \cup {[error |-> "Invalid chroma_mean; expected 12 pitch classes"],
          [top_chord |-> [chord |-> "C major"]]}

\* rhythm results: a rhythm score from below 0 to above 1 (thousandths),
\* and the Rhythm Evaluator's error value
RhythmResults ==
  {[rhythm_score |-> r] : r \in {65 * j - 130 : j \in 0..20} \cup {500, 800, 1000}}
    \cup {[error |-> "Invalid audio duration"]}

\* evaluate_performance(chord_result, rhythm_result) called on its own
call_evaluate_performance ==
  /\ result = NoResult
  /\ result' = evaluate_performance(args[1], args[2])
  /\ UNCHANGED <<service_vars, env, args>>

InitScorer ==
  /\ Constructed
  /\ env = ConfigVars
  /\ args \in ChordResults \X RhythmResults
  /\ result = NoResult

NextScorer == call_evaluate_performance

SpecScorer == InitScorer /\ [][NextScorer]_vars

\* ------------------------------------------------------------- properties
\* the payload the task of worker w hands to save_analysis_result
PayloadOf(w) ==
  Analysis(locals[w].chord_result, locals[w].rhythm_result,
           locals[w].performance_score)

\* this step is the successful persist update of worker w
Persisted(w) == pc[w] = "save" /\ pc'[w] = "status"

\* this step is the return of worker w's task with its success result
Returned(w) ==
  /\ pc[w] = "status"
  /\ pc'[w] = "idle"
  /\ locals[w].task_id \in DOMAIN task_results'
  /\ task_results'[locals[w].task_id].status = "SUCCESS"

\* this step ends worker w's task with an error
Failed(w) ==
  /\ pc[w] \in {"download", "extract", "analyze", "score", "save", "status"}
  /\ pc'[w] = "idle"
  /\ locals[w].task_id \in DOMAIN task_results'
  /\ task_results'[locals[w].task_id].status = "FAILURE"

Succeeded(key) ==
  \E t \in DOMAIN task_results :
     task_results[t].status = "SUCCESS" /\ task_results[t].s3_key = key

\* C1: when a run for a key that matches a job record returns its success
\* result, the record holds the persisted analysis and its status is
\* "analyzed".
C1_AnalyzedOnReturn ==
  [][\A w \in Workers :
       (Returned(w) /\ \E d \in Matching(videos, locals[w].s3_key) :
                          "analysis" \in DOMAIN d)
         => \A d \in Matching(videos', locals[w].s3_key) :
              "analysis" \in DOMAIN d /\ d.status = "analyzed"]_vars

\* C2: a run that failed has changed nothing: every analysis stored in a job
\* record was written by a run that returned success or that is still
\* between its persist update and its return.
C2_FailedRunChangesNothing ==
  \A d \in videos :
    "analysis" \in DOMAIN d
      => \/ Succeeded(d.s3_key)
         \/ \E w \in Workers : pc[w] = "status" /\ locals[w].s3_key = d.s3_key

\* C3: a persist update never changes the number of job documents, and when
\* the key matches, exactly one document has the key and its analysis is the
\* payload of this (the latest) persist, however many came before.
C3_PersistOverwrites ==
  [][\A w \in Workers :
       Persisted(w)
         => /\ Cardinality(videos') = Cardinality(videos)
            /\ Matching(videos, locals[w].s3_key) # {}
                 => /\ Cardinality(Matching(videos', locals[w].s3_key)) = 1
                    /\ \A d \in Matching(videos', locals[w].s3_key) :
                         d.analysis = PayloadOf(w)]_vars

\* a second persist for a key has been applied after an earlier run for the
\* same key had persisted and returned
C3_Witness ==
  \E w \in Workers :
     /\ pc[w] = "status"
     /\ Succeeded(locals[w].s3_key)
     /\ \E d \in Matching(videos, locals[w].s3_key) : d.analysis = PayloadOf(w)

\* C4: with no job record matching the key, save_analysis_result and
\* update_video_status leave the collection as it is and raise nothing of
\* their own (only a database error can end the task), so the run returns
\* its success result.
C4_NoMatchIsNoOp ==
  [][\A w \in Workers :
       (pc[w] \in {"save", "status"} /\ pc'[w] # pc[w]
          /\ Matching(videos, locals[w].s3_key) = {})
         => /\ videos' = videos
            /\ \/ pc[w] = "save" /\ pc'[w] = "status"
               \/ Returned(w)
               \/ /\ Failed(w)
                  /\ task_results'[locals[w].task_id].error = "PyMongoError"]_vars

\* a run for a key without a job record has returned its success result
C4_Witness ==
  \E t \in DOMAIN task_results :
     /\ task_results[t].status = "SUCCESS"
     /\ Matching(videos, task_results[t].s3_key) = {}

\* C5: a stored analysis always has its chord, rhythm and performance
\* sub-results together, and the update that stores or replaces it leaves
\* the status "analyzed" in the same step.
C5_AnalysisWhole ==
  /\ [](\A d \in videos :
          "analysis" \in DOMAIN d
            => DOMAIN d.analysis = {"chords", "rhythm", "performance_score"})
  /\ [][\A e \in videos' :
          ("analysis" \in DOMAIN e
             /\ \A d \in videos :
                  d._id = e._id => ("analysis" \in DOMAIN d => d.analysis # e.analysis))
            => e.status = "analyzed"]_vars

\* an analysis has been stored in a record that had been marked uploaded
C5_Witness ==
  \E d \in videos : "analysis" \in DOMAIN d /\ d.status = "analyzed"

\* the complete payloads: one per descriptor bag
CompletePayloads ==
  {Analysis(Scores[b].chord_result, Scores[b].rhythm_result,
            Scores[b].performance_score) : b \in FeatureBags}

\* C6: with two runs for one key on different workers, the stored analysis
\* is always the complete payload of one run, it is the payload of whichever
\* run's persist update is applied last, only a persist update changes it,
\* and the key has exactly one document.
C6_LastWriteWins ==
  /\ [](\A d \in videos :
          /\ Cardinality(Matching(videos, d.s3_key)) = 1
          /\ "analysis" \in DOMAIN d => d.analysis \in CompletePayloads)
  /\ [][/\ \A w1 \in Workers : \A w2 \in Workers \ {w1} :
             (Persisted(w1) /\ pc[w2] \in {"save", "status"}
                /\ locals[w2].s3_key = locals[w1].s3_key)
               => \A d \in Matching(videos', locals[w1].s3_key) :
                    d.analysis = PayloadOf(w1)
        /\ \A d \in videos, e \in videos' :
             (d._id = e._id /\ "analysis" \in DOMAIN d /\ d.analysis # e.analysis)
               => \E w \in Workers : Persisted(w) /\ locals[w].s3_key = d.s3_key]_vars

\* both runs for one key have persisted different payloads, one after the
\* other, and the record holds the later one
C6_Witness ==
  \E w1 \in Workers : \E w2 \in Workers \ {w1} :
     /\ pc[w1] = "status" /\ pc[w2] = "status"
     /\ locals[w1].s3_key = locals[w2].s3_key
     /\ PayloadOf(w1) # PayloadOf(w2)
     /\ \E d \in Matching(videos, locals[w1].s3_key) : d.analysis = PayloadOf(w1)

\* position of a status in PENDING_UPLOAD, UPLOADED, PROCESSED, ANALYZED,
\* whatever its letter case; 0 for a value outside the set
StatusRank(status) ==
  CASE status = "PENDING_UPLOAD" -> 1
    [] status \in {"UPLOADED", "uploaded"} -> 2
    [] status \in {"PROCESSED", "processed"} -> 3
    [] status \in {"ANALYZED", "analyzed"} -> 4
    [] status \in {"FAILED", "failed"} -> 5
    [] OTHER -> 0

\* C7: no step gives a job a status outside the set or earlier in the order
\* than the one it has.
C7_StatusMovesForward ==
  [][\A d \in videos, e \in videos' :
       (d._id = e._id /\ e.status # d.status)
         => /\ StatusRank(e.status) # 0
            /\ StatusRank(e.status) >= StatusRank(d.status)]_vars

\* C8: every step that changes a job's status leaves updated_at at the time
\* of that update.
C8_StatusChangeRefreshesUpdatedAt ==
  [][\A d \in videos, e \in videos' :
       (d._id = e._id /\ e.status # d.status) => e.updated_at = now']_vars

\* C9: when no task is running, no scratch directory is left.
C9_ScratchRemoved ==
  (\A w \in Workers : pc[w] \in {"boot", "init", "exited", "idle"})
    => tmp_dirs = {}

\* C10: in each worker process at most one MongoClient is ever made, and
\* once made neither the client nor the database handle changes.
C10_ConnectOnce ==
  /\ [](\A w \in Workers : mongodb_sync[w].client <= 1)
  /\ [][\A w \in Workers :
          mongodb_sync[w].client # NoClient
            => mongodb_sync'[w] = mongodb_sync[w]]_vars

\* a worker connected at initialisation and has since called connect()
\* again at the start of a task
C10_Witness ==
  \E w \in Workers :
     /\ pc[w] = "download"
     /\ mongodb_sync[w].client = 1
     /\ mongodb_sync[w].db = 1

\* C11: in a deployment where any of the configuration values the service
\* reads (bucket name, access key id and secret, region, database
\* connection string, database name) is missing, no worker process gets
\* past its startup: it has not started yet or it has exited with the
\* startup error, and so it never starts a job.
C11_MissingConfigFailsStartup ==
  (ConfigVars \ env # {})
    => \A w \in Workers : pc[w] \in {"boot", "exited"}

\* the descriptor bag has no chroma_mean of exactly 12 entries
BadChroma(feats) == Len(Get(feats, "chroma_mean", <<>>)) # 12

\* the structured error value of the Chord Detector
ChordError == [error |-> "Invalid chroma_mean; expected 12 pitch classes"]

\* C12: for a descriptor bag without a 12-entry chroma_mean the chord step
\* yields the structured error value and the run goes on: rhythm result and
\* performance score are computed, the persist update stores the analysis
\* with the error value as its chords, and the run ends by returning its
\* success result.
C12_DegradedRunCompletes ==
  [][\A w \in Workers :
       /\ (pc[w] = "score" /\ pc'[w] # "score" /\ BadChroma(locals[w].features))
            => /\ pc'[w] = "save"
               /\ locals'[w].chord_result = ChordError
               /\ "rhythm_score" \in DOMAIN locals'[w].rhythm_result
               /\ "score" \in DOMAIN locals'[w].performance_score
       /\ (Persisted(w) /\ BadChroma(locals[w].features))
            => \A d \in Matching(videos', locals[w].s3_key) :
                 /\ d.analysis.chords = ChordError
                 /\ d.analysis.rhythm = locals[w].rhythm_result
                 /\ d.analysis.performance_score = locals[w].performance_score
       /\ (pc[w] \in {"score", "save", "status"} /\ pc'[w] = "idle"
             /\ BadChroma(locals[w].features))
            => Returned(w)]_vars

\* a run on a bag without usable chroma has returned success and the job
\* record holds the analysis with the error value as its chords
C12_Witness ==
  \E d \in videos :
     /\ "analysis" \in DOMAIN d
     /\ d.analysis.chords = ChordError
     /\ "score" \in DOMAIN d.analysis.performance_score
     /\ Succeeded(d.s3_key)

\* the list is sorted non-increasingly by confidence
NonIncreasing(ranked) ==
  \A i \in 1..(Len(ranked) - 1) : ranked[i].confidence >= ranked[i + 1].confidence

\* C13 as stated: the value the Chord Detector returns for a 12-entry chroma
\* vector holds exactly 24 ranked candidates, sorted non-increasingly by
\* score, the first of them scoring at least as high as every other.
C13_Returns24Ranked ==
  result # NoResult
    => /\ Len(result.alternatives) = 24
       /\ NonIncreasing(result.alternatives)
       /\ result.top_chord = result.alternatives[1]
       /\ \A i \in DOMAIN result.alternatives :
            result.top_chord.confidence >= result.alternatives[i].confidence

\* C13 as amended: the Chord Detector scores exactly 24 candidates (12 roots
\* times major/minor) and returns the five best of them sorted
\* non-increasingly by score, the first of these as the top chord, whose
\* score is at least that of every one of the 24 candidates.
C13_ReturnsTop5Of24 ==
  result # NoResult
    => LET all == Candidates(args[1].chroma_mean, 24)
           ranked == result.alternatives
       IN  /\ Cardinality({all[n].chord : n \in DOMAIN all}) = 24
           /\ {all[n].chord : n \in DOMAIN all}
                = {pitch_classes[i] \o " " \o q :
                     i \in 1..12, q \in {"major", "minor"}}
           /\ Len(ranked) = 5
           /\ Cardinality({ranked[i].chord : i \in 1..5}) = 5
           /\ \A i \in 1..5 : \E n \in DOMAIN all : ranked[i] = all[n]
           /\ NonIncreasing(ranked)
           /\ result.top_chord = ranked[1]
           /\ \A n \in DOMAIN all :
                /\ result.top_chord.confidence >= all[n].confidence
                /\ (\A i \in 1..5 : ranked[i] # all[n])
                     => ranked[5].confidence >= all[n].confidence

\* the Chord Detector has returned five alternatives of which the first
\* scores strictly higher than the last
C13_Witness ==
  /\ result # NoResult
  /\ Len(result.alternatives) = 5
  /\ result.alternatives[1].confidence > result.alternatives[5].confidence

\* x clamped to [0, unit]
Clamped(x, unit) == IF x < 0 THEN 0 ELSE IF x > unit THEN unit ELSE x

\* the confidence the chord result carries (ten-thousandths), 0 if none
GivenConfidence(chord) ==
  IF "top_chord" \in DOMAIN chord /\ "confidence" \in DOMAIN chord.top_chord
    THEN chord.top_chord.confidence ELSE 0

\* the rhythm score the rhythm result carries (thousandths), 0 if none
GivenRhythm(rhythm) ==
  IF "rhythm_score" \in DOMAIN rhythm THEN rhythm.rhythm_score ELSE 0

\* C14: for every chord result and rhythm result, error values included,
\* the Performance Scorer returns a result whose score is
\* 100 * (0.6 * confidence + 0.4 * rhythm score) of the clamped inputs to
\* within half a tenth (rounded to one decimal), lies in [0, 100], and is
\* graded Excellent from 85, Good from 70, Fair from 50 and Needs Practice
\* below; 0.9 and 0.8 give 86.0 Excellent, 0.5 and 0.5 give 50.0 Fair.
C14_ScorerTotal ==
  result # NoResult
    => LET c == Clamped(GivenConfidence(args[1]), 10000)
           r == Clamped(GivenRhythm(args[2]), 1000)
           \* thousandths of a percent
           exact == 6 * c + 40 * r
       IN  /\ DOMAIN result = {"score", "grade", "feedback", "details"}
           /\ 100 * result.score - exact <= 50
           /\ exact - 100 * result.score <= 50
           /\ 0 <= result.score /\ result.score <= 1000
           /\ result.grade = (IF result.score >= 850 THEN "Excellent"
                              ELSE IF result.score >= 700 THEN "Good"
                              ELSE IF result.score >= 500 THEN "Fair"
                              ELSE "Needs Practice")
           /\ (c = 9000 /\ r = 800)
                => result.score = 860 /\ result.grade = "Excellent"
           /\ (c = 5000 /\ r = 500)
                => result.score = 500 /\ result.grade = "Fair"

\* the scorer has returned for two error values, with score 0
C14_Witness ==
  /\ result # NoResult
  /\ "top_chord" \notin DOMAIN args[1]
  /\ "rhythm_score" \notin DOMAIN args[2]
  /\ result.score = 0
  /\ result.grade = "Needs Practice"

====
